---- MODULE Spec2Model ----
(***************************************************************************)
(* pydupfinder: duplicate-file finder.  The model covers both pipelines of *)
(* the repository: the monolithic command `cli` (pydupfinder.py) and the   *)
(* staged `find_duplicates` (pentode_fi/body.py) with its collaborators    *)
(* pentode_fi/cache.py and pentode_fi/filesystem.py.  One behaviour is a   *)
(* sequence of runs of the program over one unchanged file tree and one    *)
(* durable cache database.                                                 *)
(***************************************************************************)
EXTENDS Integers, Sequences, FiniteSets, TLC

\* ------------------------------------------------------------- universe
\* The directory entries below the root, the md5 digests their contents
\* can have, and the bounds of the exploration.
PathSeq == <<"A", "B", "C", "D">>
Paths == {PathSeq[i] : i \in DOMAIN PathSeq}
Digests == {"x", "y"}
MaxSize == 2
MaxRuns == 2
MaxBudget == 2
MaxTarget == 2

\* Python's None, as a dictionary key and as a lookup result.
None == "None"

\* Optional[int]: {} is None, {n} is the integer n.
Opt(S) == {{}} \cup {{n} : n \in S}

\* Python truthiness of an Optional[int].
Truthy(o) == \E n \in o : n # 0

\* One directory entry: what Path.is_file() and Path.stat() answer for it and
\* the md5 of its bytes.  Attributes the program can never read (the size and
\* digest of an entry that is no file or cannot be stat'ed) are fixed.
Entries ==
    {e \in [is_file : BOOLEAN, stat_ok : BOOLEAN, st_size : 1..MaxSize, md5 : Digests] :
        /\ (~e.is_file) => e.stat_ok
        /\ (~e.is_file \/ ~e.stat_ok) => (e.st_size = 1 /\ e.md5 = "x")}

\* The program treats paths alike (it iterates over sets of them in an order
\* of Python's choosing, which the actions leave open), so of the trees that
\* differ only by renaming paths one is explored: the one whose entries are
\* in non-decreasing order of Code along PathSeq.
Code(e) ==
    (IF e.is_file THEN 100 ELSE 0) + (IF e.stat_ok THEN 50 ELSE 0)
    + 2 * e.st_size + (IF e.md5 = "x" THEN 0 ELSE 1)

Sorted(t) == \A i \in 1..(Len(PathSeq) - 1) : Code(t[PathSeq[i]]) <= Code(t[PathSeq[i + 1]])

\* The program treats digests alike as well (it compares them for equality
\* only), so of two trees that differ by exchanging the two digests one is
\* explored: the one that, at the smallest size where the digests are not
\* equally frequent, has more files of the first digest.
DigestCount(t, s, h) ==
    Cardinality({p \in Paths : /\ t[p].is_file /\ t[p].stat_ok
                               /\ t[p].st_size = s /\ t[p].md5 = h})

DigestSorted(t) ==
    \A s \in 1..MaxSize :
        (\A r \in 1..(s - 1) : DigestCount(t, r, "x") = DigestCount(t, r, "y"))
            => DigestCount(t, s, "x") >= DigestCount(t, s, "y")

VARIABLES
    tree,                   \* Paths -> Entries: the file tree, unchanged by the program
    sql_schema,             \* what the database file holds under the name sql_schema:
                            \* "absent" (no such relation), "no_row" (a relation
                            \* without a row for table 'files') or "row" (with one)
    files,                  \* committed rows of table files: path -> checksum
    txn,                    \* rows inserted on cache.py's connection, not committed
    run,                    \* number of runs started
    entry,                  \* "cli" or "find_duplicates"
    pc,                     \* position of the current run
    raised,                 \* what ended the run early: "none", the function that
                            \* raised, or "kill"
    min_duplicates,         \* Optional[int] (at_least in cli)
    max_total_size,         \* Optional[int] (max_size in cli)
    reset_cache,            \* bool
    files_by_size,          \* dict size -> set of paths
    bad_files,              \* paths whose stat failed
    stage2_sizes,           \* potential-duplicate sizes, sorted descending
    idx,                    \* position of `for size in stage2_sizes`
    to_lookup,              \* rest of `for file in files`
    unresolved,             \* rest of `for file in hashes_of_files[None]`
    hashes_of_files,        \* insertion-ordered dict checksum -> set of paths
    found_dups,
    total_size_checksummed,
    found_duplicate_files,  \* insertion-ordered dict size -> set of paths
    echoed,                 \* duplicate groups written to the console, in order
    progress,               \* position of the stage 3 progress bar
    looked_up,              \* history: paths passed to cached_checksum this run
    hashed,                 \* history: paths passed to checksum this run
    resolved,               \* history: path -> checksum the resolver gave it this run
    grouped,                \* history: sizes whose checksum groups were evaluated
    broken,                 \* history: sizes whose hashing loop the byte budget broke
    dropped,                \* history: paths without checksum when their bucket was grouped
    scanned,                \* history: files_by_size as the scan returned it
    stored,                 \* history: path -> checksum passed to store_checksum since the last reset
    prev,                   \* history: outcome of the previous completed run
    discarded,              \* history: paths whose rows the reset of this run removed
    lookups,                \* history: path -> what cached_checksum returned this run
    checksum_calls,         \* history: path -> number of checksum calls this run
    store_calls,            \* history: path -> number of store_checksum calls this run
    found_before,           \* history: found_dups when the last bucket was selected
    value,                  \* Optional[str]: the option value handed to a parser
    parsed                  \* what the parser did with it

dbVars == <<sql_schema, files, txn>>
optVars == <<entry, min_duplicates, max_total_size, reset_cache>>
scanVars == <<files_by_size, bad_files>>
loopVars == <<stage2_sizes, idx, to_lookup, unresolved, hashes_of_files>>
accVars == <<found_dups, total_size_checksummed, found_duplicate_files, echoed, progress>>
callVars == <<lookups, checksum_calls, store_calls>>
histVars == <<looked_up, hashed, resolved, grouped, broken, dropped, scanned, stored, prev,
              discarded, callVars, found_before>>
parseVars == <<value, parsed>>
vars == <<tree, dbVars, run, pc, raised, optVars, scanVars, loopVars, accVars, histVars,
          parseVars>>

\* ------------------------------------------------ insertion-ordered dicts
\* A Python dict is a sequence of [key, val] in insertion order.
Keys(d) == {d[i].key : i \in DOMAIN d}

\* d[k], k present
Get(d, k) == d[CHOOSE i \in DOMAIN d : d[i].key = k].val

GetDefault(d, k) == IF k \in Keys(d) THEN d[CHOOSE i \in DOMAIN d : d[i].key = k].val ELSE {}

\* d[k] = v: a present key keeps its position, a new key goes last.
Put(d, k, v) ==
    IF k \in Keys(d)
    THEN [i \in DOMAIN d |-> IF d[i].key = k THEN [key |-> k, val |-> v] ELSE d[i]]
    ELSE Append(d, [key |-> k, val |-> v])

\* del d[k]
Del(d, k) == SelectSeq(d, LAMBDA e : e.key # k)

\* Mutant of AddTo: the file joins the first group of the dict, whatever
\* its key.
AddToFirst(d, k, x) ==
    IF d = <<>> THEN Put(d, k, {x}) ELSE Put(d, d[1].key, d[1].val \cup {x})

\* defaultdict(set): d[k].add(x), and the bare read d[k] that creates the key.
AddTo(d, k, x) == Put(d, k, GetDefault(d, k) \cup {x})
Touch(d, k) == Put(d, k, GetDefault(d, k))

\* Mutant of Row: the lookup returns the row's file column.
RowFileColumn(t, p) == IF p \in DOMAIN t THEN p ELSE None

\* A table keyed by path: a function from the paths that have a row.
Row(t, p) == IF p \in DOMAIN t THEN t[p] ELSE None
Insert(t, p, h) == [q \in DOMAIN t \cup {p} |-> IF q = p THEN h ELSE t[q]]
NoRows == [q \in {} |-> None]

\* ------------------------------------------------------------ pure helpers
RECURSIVE SortedAscending(_)
\* Mutant of SortedReverse: sorted(keys) without reverse=True.
SortedAscending(S) ==
    IF S = {} THEN <<>>
    ELSE LET m == CHOOSE x \in S : \A y \in S : x <= y
         IN  <<m>> \o SortedAscending(S \ {m})

RECURSIVE SortedReverse(_)
\* sorted(keys, reverse=True)
SortedReverse(S) ==
    IF S = {} THEN <<>>
    ELSE LET m == CHOOSE x \in S : \A y \in S : y <= x
         IN  <<m>> \o SortedReverse(S \ {m})

\* hashlib.md5(file.read()).hexdigest(): the digest of the file's bytes.
checksum(file_path) == tree[file_path].md5

\* The generator of regular files below the root: rglob("*") filtered by is_file().
_find_files_in_path == {p \in Paths : tree[p].is_file}

\* Mutant of BucketAdd: files_by_size[st_size] = {file_path}.
BucketSet(by_size, st_size, file_path) ==
    [s \in DOMAIN by_size \cup {st_size} |-> IF s = st_size THEN {file_path} ELSE by_size[s]]

\* files_by_size[st_size].add(file_path) on a defaultdict(set).
BucketAdd(by_size, st_size, file_path) ==
    [s \in DOMAIN by_size \cup {st_size} |->
        IF s = st_size
        THEN (IF s \in DOMAIN by_size THEN by_size[s] ELSE {}) \cup {file_path}
        ELSE by_size[s]]

\* Mutant of PotentialDuplicates: `if len(paths) > 0`.
PotentialDuplicatesAll(by_size) ==
    [s \in {k \in DOMAIN by_size : Cardinality(by_size[k]) > 0} |-> by_size[s]]

\* Mutant of StatFailed: the path is not remembered.
StatFailedForgotten(acc, file_path) == acc

\* except Exception: bad_files.add(file_path); continue
StatFailed(acc, file_path) == [acc EXCEPT !.bad_files = @ \cup {file_path}]

RECURSIVE files_in_a_dir(_, _)
\* The loop of files_in_a_dir over the files the walk yields: a file whose stat
\* raises goes to bad_files, any other to the bucket of its st_size.  The
\* result does not depend on the order of the walk.
files_in_a_dir(walk, acc) ==
    IF walk = {} THEN acc
    ELSE LET file_path == CHOOSE p \in walk : TRUE
         IN  files_in_a_dir(walk \ {file_path},
                 IF tree[file_path].stat_ok
                 THEN [acc EXCEPT !.files_by_size =
                           BucketAdd(@, tree[file_path].st_size, file_path)]
                 ELSE StatFailed(acc, file_path))

\* Stage 2: keep the sizes shared by more than one file.
PotentialDuplicates(by_size) ==
    [s \in {k \in DOMAIN by_size : Cardinality(by_size[k]) > 1} |-> by_size[s]]

\* The size the resolver loop is at.
size == stage2_sizes[idx]

\* ------------------------------------------------------------------ cache
\* cache.py _exists: SELECT COUNT(*) FROM sql_schema WHERE type = 'table' AND
\* name = ?.  The statement reads a relation named sql_schema (SQLite's own
\* catalog is sqlite_schema / sqlite_master): without such a relation in the
\* database file the statement raises "no such table", with one it returns the
\* number of its matching rows.
_exists(schema) ==
    CASE schema = "absent" -> [raised |-> TRUE, count |-> 0]
      [] schema = "no_row" -> [raised |-> FALSE, count |-> 0]
      [] schema = "row"    -> [raised |-> FALSE, count |-> 1]

\* cache.py _rename: ALTER TABLE ?1 RENAME TO ?2.  SQLite binds parameters to
\* values only, never to identifiers: preparing the statement raises a syntax
\* error whatever the tables are.
_rename == [raised |-> TRUE]

\* Mutant of unlink: the database file is kept.
unlink_skipped(rc, schema, rows) == [schema |-> schema, rows |-> rows]

\* if reset_cache: database.unlink(missing_ok=True).  Unlinking the file
\* removes every relation in it and every row of table files.
unlink(rc, schema, rows) ==
    IF rc THEN [schema |-> "absent", rows |-> NoRows]
    ELSE [schema |-> schema, rows |-> rows]

\* cache.py cache_functions up to its yield: the state of the database file and
\* whether the two handles were handed out.  Unlinking the file removes every
\* relation in it.  DROP TABLE IF EXISTS cached_files drops nothing: no
\* statement of the program ever creates cached_files.
cache_functions(rc, schema, rows) ==
    LET db == unlink(rc, schema, rows)
        exist == _exists(db.schema)
        ok == /\ ~exist.raised
              /\ (exist.count # 0) => ~_rename.raised
    IN  [ok |-> ok, schema |-> db.schema, rows |-> db.rows,
         raised |-> IF exist.raised THEN "_exists" ELSE IF ok THEN "none" ELSE "_rename"]

\* pydupfinder.py cli, lines 164-171: optional unlink, then _create_cache
\* (CREATE TABLE IF NOT EXISTS files).
_create_cache(rc, schema, rows) ==
    LET db == unlink(rc, schema, rows)
    IN  [ok |-> TRUE, schema |-> db.schema, rows |-> db.rows, raised |-> "none"]

\* SELECT checksum FROM files WHERE file = ?: both pipelines read through a
\* read-only connection, which sees the committed rows only.
cached_checksum(file) == Row(files, file)

\* INSERT INTO files VALUES(:path, :checksum) fails on a path that has a row
\* (file is the PRIMARY KEY).
InsertFails(file) == file \in DOMAIN files \cup DOMAIN txn

\* ------------------------------------------------------------- key results
\* One checksum group with more than one member: body.py records it under its
\* size, cli prints it at once.
RecordGroup(e, acc, s, identical) ==
    LET n == Cardinality(identical)
    IN  IF e = "cli"
        THEN [acc EXCEPT !.dups = n,
                         !.found_dups = @ + n,
                         !.echoed = Append(@, [size |-> s, files |-> identical])]
        ELSE [acc EXCEPT !.dups = n,
                         !.found_dups = @ + n,
                         !.found_duplicate_files = Put(@, s, identical)]

\* Mutant of IsDuplicateGroup: the `if dups == 1: continue` is missing.
IsDuplicateGroupAlways(identical) == TRUE

\* `if dups == 1: continue`: a group of one file is no duplicate.
IsDuplicateGroup(identical) == Cardinality(identical) # 1

\* Mutant of Resolved: the `del hashes_of_files[None]` is missing.
ResolvedKeepsNone(d) == d

\* del hashes_of_files[None]: the files without a checksum are left out.
Resolved(d) == Del(d, None)

RECURSIVE CountGroups(_, _, _, _, _)
\* for identical in hashes_of_files.values(): ... over the dict d from item i on.
CountGroups(e, d, i, s, acc) ==
    IF i > Len(d) THEN acc
    ELSE IF ~IsDuplicateGroup(d[i].val)
         THEN CountGroups(e, d, i + 1, s, [acc EXCEPT !.dups = Cardinality(d[i].val)])
         ELSE CountGroups(e, d, i + 1, s, RecordGroup(e, acc, s, d[i].val))

\* report_duplicates: for size, identical in reversed(duplicates.items()).
report_duplicates(duplicates) ==
    [i \in 1..Len(duplicates) |->
        [size |-> duplicates[Len(duplicates) + 1 - i].key,
         files |-> duplicates[Len(duplicates) + 1 - i].val]]

\* Mutant of ToHash: the second loop runs over every file of the bucket.
ToHashAll(d) == UNION {d[i].val : i \in DOMAIN d}

\* for file in hashes_of_files[None]: the files whose lookup returned None.
ToHash(d) == Get(d, None)

\* Mutant of AfterRaise: the exception of checksum is caught inside the loop.
AfterRaiseCaught == "hash"

\* No try encloses checksum(file) in the loop: its exception leaves the
\* function, and the run is over.
AfterRaise == "failed"

RECURSIVE SumOfBuckets(_, _)
\* for size, files in files_by_size.items(): length += size * len(files)
SumOfBuckets(by_size, sizes) ==
    IF sizes = {} THEN 0
    ELSE LET s == CHOOSE x \in sizes : TRUE
         IN  s * Cardinality(by_size[s]) + SumOfBuckets(by_size, sizes \ {s})

\* length = min_duplicates or max_total_size; without limits the bytes of all
\* potential duplicates.
length ==
    IF Truthy(min_duplicates) THEN CHOOSE m \in min_duplicates : TRUE
    ELSE IF max_total_size # {} THEN CHOOSE m \in max_total_size : TRUE
    ELSE SumOfBuckets(files_by_size, DOMAIN files_by_size)

\* The progress bar after the groups of one size were counted: `dups` is what
\* the loop over the groups left in it, the length of the last group.
ProgressAfterGroups(pos, dups, s) ==
    IF Truthy(min_duplicates) /\ dups # 0 THEN pos + dups
    ELSE IF ~Truthy(max_total_size) THEN pos + s * Cardinality(files_by_size[s])
    ELSE pos

\* No call counted yet.
NoCalls == [p \in Paths |-> 0]

\* No parser was called.
NotCalled == [by |-> "none", kind |-> "none", n |-> 0, message |-> ""]

\* Mutant of OverBudget: `total_size_checksummed > max_total_size`.
OverBudgetAfter == Truthy(max_total_size) /\ \E m \in max_total_size : total_size_checksummed > m

\* The byte budget forbids hashing one more file of the current size.
OverBudget == Truthy(max_total_size) /\ \E m \in max_total_size : total_size_checksummed + size > m

\* Mutant of TargetMet: the target is never looked at.
TargetIgnored == FALSE

\* Mutant of TargetMet: `found_dups > min_duplicates`.
TargetExceeded == Truthy(min_duplicates) /\ \E m \in min_duplicates : found_dups > m

\* The duplicate-count target is configured and met.
TargetMet == Truthy(min_duplicates) /\ \E m \in min_duplicates : found_dups >= m

\* Mutant of LoopEnds: the break of the byte budget leaves the loop over the
\* sizes as well.
LoopEndsOnBudget == idx > Len(stage2_sizes) \/ TargetMet \/ broken # {}

\* `for size in stage2_sizes` is exhausted, or the `break` of lines 86-89.
LoopEnds == idx > Len(stage2_sizes) \/ TargetMet

\* Mutant of BytesAfterHash: every file counts as one byte.
BytesAfterHashOne(total, s) == total + 1

\* total_size_checksummed += size
BytesAfterHash(total, s) == total + s

\* ------------------------------------------------------------------- runs
\* History of the previous run, kept when it was a find_duplicates run that
\* left no potential duplicate without a checksum: its limits and its result.
NoPrev == [complete |-> FALSE, min_duplicates |-> {}, max_total_size |-> {},
           found_duplicate_files |-> <<>>]

\* The limits the command line accepts: --at-least (an integer >= 2) and
\* --max-size (a strictly positive size) exclude each other.
Limits ==
    {l \in [min_duplicates : Opt(2..MaxTarget), max_total_size : Opt(1..MaxBudget)] :
        l.min_duplicates = {} \/ l.max_total_size = {}}

\* Before the first run: any file tree, no cached checksum.  The database
\* file in the application directory is found as it is: the program itself
\* never creates a relation sql_schema, a file it created has none.
Init ==
    /\ tree \in {t \in [Paths -> Entries] : Sorted(t) /\ DigestSorted(t)}
    /\ sql_schema \in {"absent", "no_row", "row"}
    /\ files = NoRows
    /\ txn = NoRows
    /\ run = 0
    /\ pc = "idle"
    /\ entry = "none"
    /\ min_duplicates = {}
    /\ max_total_size = {}
    /\ reset_cache = FALSE
    /\ files_by_size = <<>>
    /\ bad_files = {}
    /\ stage2_sizes = <<>>
    /\ idx = 0
    /\ to_lookup = {}
    /\ unresolved = {}
    /\ hashes_of_files = <<>>
    /\ found_dups = 0
    /\ total_size_checksummed = 0
    /\ found_duplicate_files = <<>>
    /\ echoed = <<>>
    /\ progress = 0
    /\ raised = "none"
    /\ discarded = {}
    /\ lookups = NoRows
    /\ checksum_calls = NoCalls
    /\ store_calls = NoCalls
    /\ found_before = 0
    /\ value = {}
    /\ parsed = NotCalled
    /\ looked_up = {}
    /\ hashed = {}
    /\ resolved = NoRows
    /\ grouped = <<>>
    /\ broken = {}
    /\ dropped = {}
    /\ scanned = <<>>
    /\ stored = NoRows
    /\ prev = NoPrev

\* What every run starts from, whichever pipeline it is.
Begin(l, rc, db) ==
    /\ pc \in {"idle", "done", "failed"}
    /\ run < MaxRuns
    /\ run' = run + 1
    /\ min_duplicates' = l.min_duplicates
    /\ max_total_size' = l.max_total_size
    /\ reset_cache' = rc
    /\ sql_schema' = db.schema
    /\ files' = db.rows
    /\ txn' = NoRows
    /\ pc' = IF db.ok THEN "scan" ELSE "failed"
    /\ raised' = db.raised
    /\ files_by_size' = <<>>
    /\ bad_files' = {}
    /\ stage2_sizes' = <<>>
    /\ idx' = 0
    /\ to_lookup' = {}
    /\ unresolved' = {}
    /\ hashes_of_files' = <<>>
    /\ found_dups' = 0
    /\ total_size_checksummed' = 0
    /\ found_duplicate_files' = <<>>
    /\ echoed' = <<>>
    /\ progress' = 0
    /\ discarded' = IF rc THEN DOMAIN files ELSE {}
    /\ lookups' = NoRows
    /\ checksum_calls' = NoCalls
    /\ store_calls' = NoCalls
    /\ looked_up' = {}
    /\ hashed' = {}
    /\ resolved' = NoRows
    /\ grouped' = <<>>
    /\ broken' = {}
    /\ dropped' = {}
    /\ scanned' = <<>>
    /\ stored' = IF rc THEN NoRows ELSE stored
    /\ prev' = IF db.ok THEN prev ELSE NoPrev
    /\ found_before' = 0
    /\ UNCHANGED <<parseVars, tree>>

\* pydupfinder.py cli, lines 158-198: the cache is set up, the walk is created.
Cli(l, rc) ==
    /\ entry' = "cli"
    /\ Begin(l, rc, _create_cache(rc, sql_schema, files))

\* body.py find_duplicates, lines 22-44: cache_functions is entered; an
\* exception in it ends the run before stage 1.
FindDuplicates(l, rc) ==
    /\ entry' = "find_duplicates"
    /\ Begin(l, rc, cache_functions(rc, sql_schema, files))

\* filesystem.py files_in_a_dir, called at body.py line 44 / cli lines 191-214:
\* stage 1, the whole walk.
Scan ==
    /\ pc = "scan"
    /\ LET found == files_in_a_dir(_find_files_in_path,
                        [files_by_size |-> <<>>, bad_files |-> {}])
       IN  /\ files_by_size' = found.files_by_size
           /\ bad_files' = found.bad_files
    /\ pc' = "stage2"
    /\ UNCHANGED <<parseVars, tree, dbVars, run, raised, optVars, loopVars, accVars, histVars>>

\* body.py lines 45-77 / cli lines 216-258: the sizes of one file are dropped,
\* the rest sorted largest first, the counters zeroed.
Stage2 ==
    /\ pc = "stage2"
    /\ files_by_size' = PotentialDuplicates(files_by_size)
    /\ stage2_sizes' = SortedReverse(DOMAIN files_by_size')
    /\ idx' = 1
    /\ pc' = "select"
    /\ scanned' = files_by_size
    /\ UNCHANGED <<parseVars, tree, dbVars, run, raised, optVars, bad_files, to_lookup, unresolved,
                   hashes_of_files, accVars, looked_up, hashed, resolved, grouped, broken,
                   dropped, stored, prev, discarded, callVars, found_before>>

\* body.py lines 85-97 / cli 264-276: the head of `for size in stage2_sizes`.
SelectSize ==
    /\ pc = "select"
    /\ IF LoopEnds
       THEN /\ pc' = "report"
            /\ UNCHANGED <<to_lookup, hashes_of_files, found_before>>
       ELSE /\ pc' = "lookup"
            /\ to_lookup' = files_by_size[size]
            /\ hashes_of_files' = <<>>
            /\ found_before' = found_dups
    /\ UNCHANGED <<parseVars, tree, dbVars, run, raised, optVars, scanVars, stage2_sizes, idx,
                   unresolved, accVars, looked_up, hashed, resolved, grouped, broken,
                   dropped, scanned, stored, prev, discarded, callVars>>

\* body.py lines 99-104 / cli 278-283: one cache lookup; after the last one the
\* second loop starts on hashes_of_files[None], which creates that key.
Lookup(file) ==
    /\ pc = "lookup"
    /\ file \in to_lookup
    /\ to_lookup' = to_lookup \ {file}
    /\ looked_up' = looked_up \cup {file}
    /\ LET ch_cs == cached_checksum(file)
           d == AddTo(hashes_of_files, ch_cs, file)
       IN  /\ resolved' = IF ch_cs = None THEN resolved ELSE Insert(resolved, file, ch_cs)
           /\ lookups' = Insert(lookups, file, ch_cs)
           /\ IF to_lookup' = {}
              THEN /\ hashes_of_files' = Touch(d, None)
                   /\ unresolved' = ToHash(hashes_of_files')
                   /\ pc' = "hash"
              ELSE /\ hashes_of_files' = d
                   /\ UNCHANGED <<unresolved, pc>>
    /\ UNCHANGED <<parseVars, tree, dbVars, run, raised, optVars, scanVars, stage2_sizes, idx, accVars,
                   hashed, grouped, broken, dropped, scanned, stored, prev, discarded,
                   checksum_calls, store_calls, found_before>>

\* body.py lines 104-125 / cli 283-300: one file without a cached checksum is
\* read, hashed and stored.  Opening or reading the file can raise (the file
\* vanished or became unreadable after its stat): `opened` is whether it did
\* not.  cli commits each insert; cache.py's connection keeps it in its open
\* transaction, which an exception leaving the `with` rolls back.
HashFile(file, opened) ==
    /\ pc = "hash"
    /\ file \in unresolved
    /\ ~OverBudget
    /\ unresolved' = unresolved \ {file}
    /\ hashed' = hashed \cup {file}
    /\ checksum_calls' = [checksum_calls EXCEPT ![file] = @ + 1]
    /\ IF ~opened
       THEN /\ pc' = AfterRaise
            /\ raised' = "checksum"
            /\ txn' = NoRows
            /\ UNCHANGED <<files, total_size_checksummed, hashes_of_files, resolved,
                           stored, store_calls, progress>>
       ELSE LET cal_cs == checksum(file)
            IN  /\ total_size_checksummed' = BytesAfterHash(total_size_checksummed, size)
                /\ store_calls' = [store_calls EXCEPT ![file] = @ + 1]
                /\ IF InsertFails(file)
                   THEN /\ pc' = "failed"
                        /\ raised' = "store_checksum"
                        /\ txn' = NoRows
                        /\ UNCHANGED <<files, hashes_of_files, resolved, stored, progress>>
                   ELSE /\ IF entry = "cli"
                           THEN files' = Insert(files, file, cal_cs) /\ UNCHANGED txn
                           ELSE txn' = Insert(txn, file, cal_cs) /\ UNCHANGED files
                        /\ hashes_of_files' = AddTo(hashes_of_files, cal_cs, file)
                        /\ resolved' = Insert(resolved, file, cal_cs)
                        /\ stored' = Insert(stored, file, cal_cs)
                        /\ progress' = IF Truthy(max_total_size) THEN progress + size
                                       ELSE progress
                        /\ UNCHANGED <<pc, raised>>
    /\ UNCHANGED <<parseVars, tree, sql_schema, run, optVars, scanVars, stage2_sizes, idx, to_lookup,
                   found_dups, found_duplicate_files, echoed, looked_up, grouped, broken,
                   dropped, scanned, prev, discarded, lookups, found_before>>

\* body.py lines 104-147 / cli 283-327: the second loop ends (no file left, or
\* the byte budget breaks it); the unresolved group is deleted and the checksum
\* groups are counted.
Group ==
    /\ pc = "hash"
    /\ unresolved = {} \/ OverBudget
    /\ LET d == Resolved(hashes_of_files)
           acc == CountGroups(entry, d, 1, size,
                      [dups |-> 0, found_dups |-> found_dups,
                       found_duplicate_files |-> found_duplicate_files,
                       echoed |-> echoed])
       IN  /\ hashes_of_files' = d
           /\ found_dups' = acc.found_dups
           /\ found_duplicate_files' = acc.found_duplicate_files
           /\ echoed' = acc.echoed
           /\ progress' = ProgressAfterGroups(progress, acc.dups, size)
    /\ grouped' = Append(grouped, size)
    /\ broken' = IF unresolved # {} THEN broken \cup {size} ELSE broken
    /\ dropped' = dropped \cup unresolved
    /\ unresolved' = {}
    /\ idx' = idx + 1
    /\ pc' = "select"
    /\ UNCHANGED <<parseVars, tree, dbVars, run, raised, optVars, scanVars, stage2_sizes, to_lookup,
                   total_size_checksummed, looked_up, hashed, resolved, scanned, stored, prev,
                   discarded, callVars, found_before>>

\* body.py lines 149-150 with the exit of the `with` of line 37 (the write
\* connection commits), then report_duplicates; cli line 329, the last update
\* of the progress bar.
Report ==
    /\ pc = "report"
    /\ pc' = "done"
    /\ files' = [q \in DOMAIN files \cup DOMAIN txn |->
                    IF q \in DOMAIN txn THEN txn[q] ELSE files[q]]
    /\ txn' = NoRows
    /\ echoed' = IF entry = "cli" THEN echoed ELSE report_duplicates(found_duplicate_files)
    /\ progress' = IF entry = "cli" THEN progress + length ELSE progress
    /\ prev' = IF /\ entry = "find_duplicates"
                   /\ UNION {files_by_size[s] : s \in DOMAIN files_by_size}
                          \subseteq DOMAIN files'
                THEN [complete |-> TRUE, min_duplicates |-> min_duplicates,
                      max_total_size |-> max_total_size,
                      found_duplicate_files |-> found_duplicate_files]
                ELSE NoPrev
    /\ UNCHANGED <<parseVars, tree, sql_schema, run, raised, optVars, scanVars, loopVars, found_dups,
                   total_size_checksummed, found_duplicate_files, looked_up, hashed,
                   resolved, grouped, broken, dropped, scanned, stored, discarded, callVars,
                   found_before>>

\* The process is terminated from outside while the run is under way.  What
\* cache.py's write connection has not committed is lost with it, and so is
\* everything the process held in memory: the database file, and the record
\* of what was passed to store_checksum, are what is left.
Kill ==
    /\ pc \in {"scan", "stage2", "select", "lookup", "hash", "report"}
    /\ pc' = "failed"
    /\ raised' = "kill"
    /\ txn' = NoRows
    /\ min_duplicates' = {}
    /\ max_total_size' = {}
    /\ reset_cache' = FALSE
    /\ files_by_size' = <<>>
    /\ bad_files' = {}
    /\ stage2_sizes' = <<>>
    /\ idx' = 0
    /\ to_lookup' = {}
    /\ unresolved' = {}
    /\ hashes_of_files' = <<>>
    /\ found_dups' = 0
    /\ total_size_checksummed' = 0
    /\ found_duplicate_files' = <<>>
    /\ echoed' = <<>>
    /\ progress' = 0
    /\ looked_up' = {}
    /\ hashed' = {}
    /\ resolved' = NoRows
    /\ grouped' = <<>>
    /\ broken' = {}
    /\ dropped' = {}
    /\ scanned' = <<>>
    /\ prev' = NoPrev
    /\ discarded' = {}
    /\ lookups' = NoRows
    /\ checksum_calls' = NoCalls
    /\ store_calls' = NoCalls
    /\ found_before' = 0
    /\ UNCHANGED <<parseVars, tree, sql_schema, files, run, entry, stored>>

Next ==
    \/ \E l \in Limits, rc \in BOOLEAN : Cli(l, rc)
    \/ \E l \in Limits, rc \in BOOLEAN : FindDuplicates(l, rc)
    \/ Scan
    \/ Stage2
    \/ SelectSize
    \/ \E file \in Paths : Lookup(file)
    \/ \E file \in Paths, opened \in BOOLEAN : HashFile(file, opened)
    \/ Group
    \/ Report
    \/ Kill

Spec == Init /\ [][Next]_vars

\* ------------------------------------------------- the cache functions alone
\* The two functions the cache hands out, called in any order with any
\* arguments, as a unit test would: store_checksum(file, file_hash) and the
\* exit of cache.py's `with`.  No run is under way (pc = "cache"), no file is
\* scanned; `stored` is the last checksum passed to store_checksum for a path
\* and `raised` tells whether the last call raised.
EmptyTree ==
    [p \in Paths |-> [is_file |-> FALSE, stat_ok |-> TRUE, st_size |-> 1, md5 |-> "x"]]

InitCache ==
    /\ tree = EmptyTree
    /\ sql_schema = "no_row"
    /\ files = NoRows
    /\ txn = NoRows
    /\ run = 0
    /\ pc = "cache"
    /\ raised = "none"
    /\ entry \in {"cli", "find_duplicates"}
    /\ min_duplicates = {}
    /\ max_total_size = {}
    /\ reset_cache = FALSE
    /\ files_by_size = <<>>
    /\ bad_files = {}
    /\ stage2_sizes = <<>>
    /\ idx = 0
    /\ to_lookup = {}
    /\ unresolved = {}
    /\ hashes_of_files = <<>>
    /\ found_dups = 0
    /\ total_size_checksummed = 0
    /\ found_duplicate_files = <<>>
    /\ echoed = <<>>
    /\ progress = 0
    /\ looked_up = {}
    /\ hashed = {}
    /\ resolved = NoRows
    /\ grouped = <<>>
    /\ broken = {}
    /\ dropped = {}
    /\ scanned = <<>>
    /\ stored = NoRows
    /\ prev = NoPrev
    /\ discarded = {}
    /\ lookups = NoRows
    /\ checksum_calls = NoCalls
    /\ store_calls = NoCalls
    /\ found_before = 0
    /\ value = {}
    /\ parsed = NotCalled

\* _store_checksum_in_cache: INSERT INTO files VALUES(:path, :checksum).  The
\* statement raises on a path that has a row and changes nothing then; cli's
\* function commits on return, cache.py's leaves the row in the transaction.
StoreChecksum(file, file_hash) ==
    /\ pc = "cache"
    /\ stored' = Insert(stored, file, file_hash)
    /\ IF InsertFails(file)
       THEN /\ raised' = "store_checksum"
            /\ UNCHANGED <<files, txn>>
       ELSE /\ raised' = "none"
            /\ IF entry = "cli"
               THEN files' = Insert(files, file, file_hash) /\ UNCHANGED txn
               ELSE txn' = Insert(txn, file, file_hash) /\ UNCHANGED files
    /\ UNCHANGED <<parseVars, tree, sql_schema, run, pc, optVars, scanVars, loopVars, accVars,
                   looked_up, hashed, resolved, grouped, broken, dropped, scanned, prev,
                   discarded, callVars, found_before>>

\* The exit of `with sqlite3.connect(database) as conn` without exception:
\* the transaction of the write connection is committed.
CloseCache ==
    /\ pc = "cache"
    /\ txn # NoRows
    /\ files' = [q \in DOMAIN files \cup DOMAIN txn |->
                    IF q \in DOMAIN txn THEN txn[q] ELSE files[q]]
    /\ txn' = NoRows
    /\ UNCHANGED <<parseVars, tree, sql_schema, run, pc, raised, optVars, scanVars, loopVars, accVars,
                   histVars>>

NextCache ==
    \/ \E file \in Paths, file_hash \in Digests : StoreChecksum(file, file_hash)
    \/ CloseCache

SpecCache == InitCache /\ [][NextCache]_vars

\* ------------------------------------------------------- the option parsers
\* A Python str is the sequence of its characters.  The option values are
\* drawn from the strings over Chars of at most MaxLen characters: digits, the
\* decimal point, the sign, the blank, suffix letters of both cases and of
\* different units, and the two characters memory.py looks for.
MaxLen == 4

Chars == {"0", "2", "5", "7", ".", "-", " ", "k", "K", "m", "g", "%", "*"}

StringsOfLen(n) == [1..n -> Chars]

Strings == UNION {StringsOfLen(n) : n \in 0..MaxLen}

DecimalDigits == <<"0", "1", "2", "3", "4", "5", "6", "7", "8", "9">>

IsDigit(c) == \E i \in DOMAIN DecimalDigits : DecimalDigits[i] = c

DigitValue(c) == (CHOOSE i \in DOMAIN DecimalDigits : DecimalDigits[i] = c) - 1

\* str.isspace on one character.
IsSpace(c) == c = " "

\* value.endswith(c) for a one-character c.
endswith(s, c) == s # <<>> /\ s[Len(s)] = c

\* value.removesuffix(c) for a one-character c.
removesuffix(s, c) == IF endswith(s, c) THEN SubSeq(s, 1, Len(s) - 1) ELSE s

RECURSIVE rstrip(_)
rstrip(s) ==
    IF s # <<>> /\ IsSpace(s[Len(s)]) THEN rstrip(SubSeq(s, 1, Len(s) - 1)) ELSE s

RECURSIVE lstrip(_)
lstrip(s) == IF s # <<>> /\ IsSpace(s[1]) THEN lstrip(Tail(s)) ELSE s

\* What float() and int() do to their argument first.
strip(s) == lstrip(rstrip(s))

Kilo == 1024

\* Mutant of multiplier: the table has the lower-case letters only.
multiplier_lower(s) ==
    CASE s[Len(s)] = "k" -> Kilo
      [] s[Len(s)] = "m" -> Kilo * Kilo
      [] s[Len(s)] = "g" -> Kilo * Kilo * Kilo
      [] OTHER -> 1

\* {"k": 1024, "K": 1024, "m": ..., "G": 1024 * 1024 * 1024}.get(value[-1], 1)
multiplier(s) ==
    CASE s[Len(s)] \in {"k", "K"} -> Kilo
      [] s[Len(s)] \in {"m", "M"} -> Kilo * Kilo
      [] s[Len(s)] \in {"g", "G"} -> Kilo * Kilo * Kilo
      [] OTHER -> 1

\* The order in which `for suffix in ["k", "m", "g"]` removes suffix.lower()
\* and suffix.upper().
Suffixes == <<"k", "K", "m", "M", "g", "G">>

RECURSIVE RemoveSuffixes(_, _)
RemoveSuffixes(val, suffixes) ==
    IF suffixes = <<>> THEN val
    ELSE RemoveSuffixes(removesuffix(val, Head(suffixes)), Tail(suffixes))

\* val after the loop and val.rstrip().
Remainder(s) == rstrip(RemoveSuffixes(s, Suffixes))

\* The sign and the digits of a numeric literal.
Unsigned(t) == IF t # <<>> /\ t[1] = "-" THEN Tail(t) ELSE t

Dots(u) == Cardinality({i \in DOMAIN u : u[i] = "."})

\* float(val) accepts, of the strings over Chars: blanks, an optional sign,
\* digits with at most one decimal point among them and at least one digit,
\* blanks.
IsFloat(val) ==
    LET u == Unsigned(strip(val))
    IN  /\ \A i \in DOMAIN u : IsDigit(u[i]) \/ u[i] = "."
        /\ Dots(u) <= 1
        /\ \E i \in DOMAIN u : IsDigit(u[i])

\* int(val) accepts blanks, an optional sign, one or more digits, blanks.
IsInt(val) == IsFloat(val) /\ Dots(Unsigned(strip(val))) = 0

RECURSIVE Pow10(_)
Pow10(n) == IF n = 0 THEN 1 ELSE 10 * Pow10(n - 1)

\* The digits of a literal read as one integer, the decimal point left out.
RECURSIVE Mantissa(_)
Mantissa(u) ==
    IF u = <<>> THEN 0
    ELSE IF u[Len(u)] = "." THEN Mantissa(SubSeq(u, 1, Len(u) - 1))
    ELSE 10 * Mantissa(SubSeq(u, 1, Len(u) - 1)) + DigitValue(u[Len(u)])

\* The number of digits after the decimal point.
Fraction(u) ==
    IF Dots(u) = 0 THEN 0 ELSE Len(u) - (CHOOSE i \in DOMAIN u : u[i] = ".")

\* float(val) of an accepted val, kept exact: sign * (whole + rest / unit) with
\* 0 <= rest < unit.  -0.0 has negative = TRUE and is zero.
float(val) ==
    LET u == Unsigned(strip(val))
        unit == Pow10(Fraction(u))
    IN  [negative |-> strip(val)[1] = "-",
         whole |-> Mantissa(u) \div unit,
         rest |-> Mantissa(u) % unit,
         unit |-> unit]

\* x * k for an exact x and an int k.
Times(x, k) ==
    [x EXCEPT !.whole = x.whole * k + (x.rest * k) \div x.unit,
              !.rest = (x.rest * k) % x.unit]

\* x * m for m a power of Kilo, one factor at a time (the products of the
\* rest stay small).
RECURSIVE TimesMultiplier(_, _)
TimesMultiplier(x, m) ==
    IF m = 1 THEN x ELSE TimesMultiplier(Times(x, Kilo), m \div Kilo)

\* int(x) of a float: truncation toward zero.
int(x) == IF x.negative THEN 0 - x.whole ELSE x.whole

\* The parsers return Python ints, which are unbounded; the values drawn are
\* those whose product with the multiplier stays below Kilo^3.
InRange(s) ==
    s # <<>> /\ IsFloat(Remainder(s))
        => float(Remainder(s)).whole < (Kilo * Kilo * Kilo) \div multiplier(s)

Values == {v \in Strings : InRange(v)}

\* The outcomes of a parser.
Returned(by, n) == [by |-> by, kind |-> "return", n |-> n, message |-> ""]
ReturnedNone(by) == [by |-> by, kind |-> "None", n |-> 0, message |-> ""]
BadParameter(by, message) ==
    [by |-> by, kind |-> "BadParameter", n |-> 0, message |-> message]
AttributeError(by) ==
    [by |-> by, kind |-> "AttributeError", n |-> 0, message |-> ""]

CannotParse == "Cannot parse size"
StrictlyPositive == "It must be strictly positive."
Percentage == "The percentage must be between 0 and 100."

\* pentode_fi/number.py parse_size; opt is Optional[str].
number_parse_size(by, opt) ==
    IF opt = {} THEN ReturnedNone(by)
    ELSE LET v == CHOOSE v \in opt : TRUE
             val == Remainder(v)
         IN  IF v = <<>> THEN BadParameter(by, CannotParse)
             ELSE IF ~IsFloat(val) THEN BadParameter(by, CannotParse)
             ELSE LET n == int(TimesMultiplier(float(val), multiplier(v)))
                  IN  IF n <= 0 THEN BadParameter(by, StrictlyPositive)
                      ELSE Returned(by, n)

\* pentode_fi/size.py parse_size and pydupfinder.py _parse_size: int(val).
size_parse_size(by, opt) ==
    IF opt = {} THEN ReturnedNone(by)
    ELSE LET v == CHOOSE v \in opt : TRUE
             val == Remainder(v)
         IN  IF v = <<>> THEN BadParameter(by, CannotParse)
             ELSE IF ~IsInt(val) THEN BadParameter(by, CannotParse)
             ELSE LET n == int(float(val)) * multiplier(v)
                  IN  IF n <= 0 THEN BadParameter(by, StrictlyPositive)
                      ELSE Returned(by, n)

\* psutil.virtual_memory().total of the machine, here one of 16 KiB.
total == 16 * Kilo

\* int(total * parsed / 100)
PercentOf(x) ==
    LET hundredth == [negative |-> x.negative,
                      whole |-> (x.whole * x.unit + x.rest) \div (100 * x.unit),
                      rest |-> (x.whole * x.unit + x.rest) % (100 * x.unit),
                      unit |-> 100 * x.unit]
    IN  int(Times(hundredth, total))

\* parsed < 0 or parsed > 100
OutOfPercentRange(x) ==
    \/ x.negative /\ (x.whole > 0 \/ x.rest > 0)
    \/ ~x.negative /\ (x.whole > 100 \/ (x.whole = 100 /\ x.rest > 0))

\* The character of `value.endswith("*")`.
PercentSign == "*"

\* pentode_fi/memory.py parse_memory_limit: value.endswith on None raises
\* AttributeError; float() is applied to value, not to val.
parse_memory_limit(by, opt) ==
    IF opt = {} THEN AttributeError(by)
    ELSE LET v == CHOOSE v \in opt : TRUE
         IN  IF endswith(v, PercentSign)
             THEN IF ~IsFloat(v) THEN BadParameter(by, CannotParse)
                  ELSE IF OutOfPercentRange(float(v)) THEN BadParameter(by, Percentage)
                  ELSE Returned(by, PercentOf(float(v)))
             ELSE size_parse_size(by, opt)

InitParse ==
    /\ tree = EmptyTree
    /\ sql_schema = "no_row"
    /\ files = NoRows
    /\ txn = NoRows
    /\ run = 0
    /\ pc = "parse"
    /\ raised = "none"
    /\ entry = "cli"
    /\ min_duplicates = {}
    /\ max_total_size = {}
    /\ reset_cache = FALSE
    /\ files_by_size = <<>>
    /\ bad_files = {}
    /\ stage2_sizes = <<>>
    /\ idx = 0
    /\ to_lookup = {}
    /\ unresolved = {}
    /\ hashes_of_files = <<>>
    /\ found_dups = 0
    /\ total_size_checksummed = 0
    /\ found_duplicate_files = <<>>
    /\ echoed = <<>>
    /\ progress = 0
    /\ looked_up = {}
    /\ hashed = {}
    /\ resolved = NoRows
    /\ grouped = <<>>
    /\ broken = {}
    /\ dropped = {}
    /\ scanned = <<>>
    /\ stored = NoRows
    /\ prev = NoPrev
    /\ discarded = {}
    /\ lookups = NoRows
    /\ checksum_calls = NoCalls
    /\ store_calls = NoCalls
    /\ found_before = 0
    /\ value \in Opt(Values)
    /\ parsed = NotCalled

ParserVarsElse ==
    <<tree, dbVars, run, pc, raised, optVars, scanVars, loopVars, accVars, histVars, value>>

\* number.parse_size(ctx, param, value)
NumberParseSize ==
    /\ pc = "parse" /\ parsed = NotCalled
    /\ parsed' = number_parse_size("number.parse_size", value)
    /\ UNCHANGED ParserVarsElse

\* size.parse_size(ctx, param, value)
SizeParseSize ==
    /\ pc = "parse" /\ parsed = NotCalled
    /\ parsed' = size_parse_size("size.parse_size", value)
    /\ UNCHANGED ParserVarsElse

\* The callback of --max-size.
CliParseSize ==
    /\ pc = "parse" /\ parsed = NotCalled
    /\ parsed' = size_parse_size("pydupfinder._parse_size", value)
    /\ UNCHANGED ParserVarsElse

\* memory.parse_memory_limit(ctx, param, value)
ParseMemoryLimit ==
    /\ pc = "parse" /\ parsed = NotCalled
    /\ parsed' = parse_memory_limit("memory.parse_memory_limit", value)
    /\ UNCHANGED ParserVarsElse

NextParse ==
    \/ NumberParseSize
    \/ SizeParseSize
    \/ CliParseSize
    \/ ParseMemoryLimit

SpecParse == InitParse /\ [][NextParse]_vars

\* ------------------------------------------------------------------ claims
\* The paths of the duplicate groups the run has recorded or printed.
ReportedPaths ==
    UNION ({found_duplicate_files[i].val : i \in DOMAIN found_duplicate_files}
           \cup {echoed[i].files : i \in DOMAIN echoed})

\* A dict as the set of its items.
AsMap(d) == {<<d[i].key, d[i].val>> : i \in DOMAIN d}

\* The cache handles of the run are open.
HandlesOpen == pc \in {"scan", "stage2", "select", "lookup", "hash", "report"}

\* The run is in the resolver loop, inside one bucket, or an exception ended
\* it there.
InBucket ==
    \/ pc \in {"lookup", "hash"}
    \/ pc = "failed" /\ raised \in {"checksum", "store_checksum"}

\* C1: after a run of find_duplicates, every path of a processed bucket whose
\* checksum equals that of another resolved path of the bucket is in the final
\* map under the bucket's size, also when the bucket holds several groups.
C1_EveryGroupRecorded ==
    (pc = "done" /\ entry = "find_duplicates") =>
        \A i \in DOMAIN grouped :
            \A p, q \in files_by_size[grouped[i]] \cap DOMAIN resolved :
                (p # q /\ resolved[p] = resolved[q])
                    => p \in GetDefault(found_duplicate_files, grouped[i])

\* C2: a checksum passed to store_checksum is what cached_checksum returns for
\* the path, in the same run and in every later run started without reset.
C2_CacheRoundTrip ==
    HandlesOpen => \A p \in DOMAIN stored : cached_checksum(p) = stored[p]

\* C3: a second find_duplicates run with the same limits and no reset, after a
\* run that left every potential duplicate with a checksum, hashes no file and
\* ends with the same duplicate map.
C3_RerunIdempotent ==
    ( /\ pc = "report"
      /\ entry = "find_duplicates"
      /\ ~reset_cache
      /\ prev.complete
      /\ prev.min_duplicates = min_duplicates
      /\ prev.max_total_size = max_total_size )
        => /\ hashed = {}
           /\ AsMap(found_duplicate_files) = AsMap(prev.found_duplicate_files)

\* The largest size whose hashing loop the byte budget broke, 0 without one.
BudgetStopSize ==
    IF broken = {} THEN 0 ELSE CHOOSE s \in broken : \A t \in broken : t <= s

\* C4: with a byte budget B, the bytes freshly hashed in the run never exceed
\* B plus the size of the bucket whose processing the budget stopped.
C4_ByteBudgetBound ==
    \A m \in max_total_size : total_size_checksummed <= m + BudgetStopSize

\* C4 witness: under a budget, files were hashed and the budget broke a bucket.
C4_Witness ==
    /\ max_total_size # {}
    /\ hashed # {}
    /\ broken # {}

\* C5: a bucket is in progress only if the found-duplicate total was below the
\* target when it was selected; once the loop has stopped on the target, no
\* file of a remaining size was looked up or hashed and no remaining size was
\* grouped.
C5_TargetStopsResolver ==
    \A m \in min_duplicates :
        /\ InBucket => found_dups < m
        /\ (pc \in {"report", "done"} /\ found_dups >= m) =>
               \A j \in idx..Len(stage2_sizes) :
                   /\ files_by_size[stage2_sizes[j]] \cap (looked_up \cup hashed) = {}
                   /\ \A i \in DOMAIN grouped : grouped[i] # stage2_sizes[j]

\* C5 witness: the run ended on the target with a size left unprocessed.
C5_Witness ==
    /\ pc = "done"
    /\ \E m \in min_duplicates : found_dups >= m
    /\ idx <= Len(stage2_sizes)
    /\ grouped # <<>>

\* C6: the sizes are processed in strictly descending order, none twice: the
\* processed sizes descend, the size in progress is below all of them, and
\* every file looked up or hashed has a processed size or the one in progress.
C6_LargestFirst ==
    /\ \A i, j \in DOMAIN grouped : i < j => grouped[i] > grouped[j]
    /\ InBucket => \A i \in DOMAIN grouped : grouped[i] > size
    /\ \A p \in looked_up \cup hashed :
           \/ \E i \in DOMAIN grouped : grouped[i] = tree[p].st_size
           \/ InBucket /\ tree[p].st_size = size

\* C6 witness: a second, smaller bucket is being hashed after a first one.
C6_Witness ==
    /\ pc = "hash"
    /\ grouped # <<>>
    /\ \E p, q \in hashed : tree[p].st_size > tree[q].st_size

\* C7: a path without checksum when its bucket was grouped is in no reported
\* duplicate group of the run.
C7_NoPartialEvidence == dropped \cap ReportedPaths = {}

\* C7 witness: a run of find_duplicates ended with a dropped path whose
\* content equals that of a reported file of its size.
C7_Witness ==
    /\ pc = "done"
    /\ entry = "find_duplicates"
    /\ \E p \in dropped, q \in ReportedPaths :
           /\ tree[p].st_size = tree[q].st_size
           /\ tree[p].md5 = tree[q].md5

\* C8: no entry of the duplicate map, and no printed group, has fewer than two
\* paths.
C8_GroupsOfTwoOrMore ==
    /\ \A i \in DOMAIN found_duplicate_files : Cardinality(found_duplicate_files[i].val) >= 2
    /\ \A i \in DOMAIN echoed : Cardinality(echoed[i].files) >= 2

\* C8 witness: find_duplicates reported a map although the last bucket held a
\* checksum group of one file.
C8_Witness ==
    /\ pc = "done"
    /\ entry = "find_duplicates"
    /\ found_duplicate_files # <<>>
    /\ \E i \in DOMAIN hashes_of_files : Cardinality(hashes_of_files[i].val) = 1

\* The scan has returned and stage 2 has not run yet.
ScanReturned == pc = "stage2"

\* C9: when the scan returns, every regular file whose stat succeeded is in
\* the bucket of its stat size and in no other, the buckets together are the
\* regular files minus the inaccessible ones, and no inaccessible path is in
\* a bucket.
C9_ScanPartition ==
    ScanReturned =>
        LET buckets == UNION {files_by_size[s] : s \in DOMAIN files_by_size}
        IN  /\ \A p \in Paths :
                   (tree[p].is_file /\ tree[p].stat_ok) =>
                       /\ tree[p].st_size \in DOMAIN files_by_size
                       /\ \A s \in DOMAIN files_by_size :
                              p \in files_by_size[s] <=> s = tree[p].st_size
            /\ buckets = _find_files_in_path \ bad_files
            /\ bad_files = {p \in _find_files_in_path : ~tree[p].stat_ok}
            /\ buckets \cap bad_files = {}

\* C9 witness: the scan returned an inaccessible file and two buckets, one of
\* them with two files.
C9_Witness ==
    /\ ScanReturned
    /\ bad_files # {}
    /\ Cardinality(DOMAIN files_by_size) >= 2
    /\ \E s \in DOMAIN files_by_size : Cardinality(files_by_size[s]) >= 2

\* C10: after stage 2 the map holds exactly the scanned buckets of two or more
\* files, unchanged, and every file looked up or hashed is in such a bucket.
C10_PotentialDuplicateFilter ==
    pc \in {"select", "lookup", "hash", "report", "done"} =>
        /\ DOMAIN files_by_size = {s \in DOMAIN scanned : Cardinality(scanned[s]) >= 2}
        /\ \A s \in DOMAIN files_by_size : files_by_size[s] = scanned[s]
        /\ \A p \in looked_up \cup hashed :
               \E s \in DOMAIN scanned : p \in scanned[s] /\ Cardinality(scanned[s]) >= 2

\* C10 witness: a run ended in which a bucket of one file was dropped and the
\* files of another bucket were looked up.
C10_Witness ==
    /\ pc = "done"
    /\ \E s \in DOMAIN scanned : Cardinality(scanned[s]) = 1
    /\ looked_up # {}

\* C11: within one run checksum is called at most once per path and only for
\* paths whose lookup returned None, a path with a cached checksum is neither
\* hashed nor stored, and every checksum that was computed was passed to
\* store_checksum exactly once (the one call of checksum that raised, if any,
\* computed none).
C11_HashedAtMostOnce ==
    /\ \A p \in Paths :
           /\ checksum_calls[p] <= 1
           /\ store_calls[p] <= checksum_calls[p]
           /\ (p \in hashed) <=> (checksum_calls[p] = 1)
           /\ checksum_calls[p] = 1 => (p \in DOMAIN lookups /\ lookups[p] = None)
           /\ (p \in DOMAIN lookups /\ lookups[p] # None) =>
                  (checksum_calls[p] = 0 /\ store_calls[p] = 0)
    /\ Cardinality({p \in Paths : store_calls[p] # checksum_calls[p]})
           = IF raised = "checksum" THEN 1 ELSE 0

\* C11 witness: a run ended in which one file of a bucket had a cached
\* checksum and another file of the same bucket was hashed and stored.
C11_Witness ==
    /\ pc = "done"
    /\ \E p, q \in DOMAIN lookups :
           /\ lookups[p] # None
           /\ tree[p].st_size = tree[q].st_size
           /\ checksum_calls[q] = 1
           /\ store_calls[q] = 1

\* C12: a checksum passed to store_checksum in an earlier run, whatever ended
\* that run, is what the lookup returns in a later run started without reset.
C12_PerFileDurability ==
    HandlesOpen => \A p \in DOMAIN stored \ hashed : cached_checksum(p) = stored[p]

\* C13: in a run started with reset_cache the table holds no row but those of
\* files the run itself has hashed, and every lookup of the run returned None.
C13_ResetDiscardsEntries ==
    reset_cache =>
        /\ DOMAIN files \subseteq hashed
        /\ \A p \in DOMAIN lookups : lookups[p] = None

\* C13 witness: a path whose row the reset of the run removed was looked up.
C13_Witness ==
    /\ reset_cache
    /\ discarded \cap DOMAIN lookups # {}

\* C14: report_duplicates prints the groups of the final map of find_duplicates
\* in descending order of size.
C14_ReportDescending ==
    (pc = "done" /\ entry = "find_duplicates") =>
        \A i, j \in DOMAIN echoed : i < j => echoed[i].size > echoed[j].size

\* C15: during a run of find_duplicates the lookup returns every checksum the
\* run has written through the write handle, and every row that was there
\* when the run started.
C15_ReadYourWrites ==
    (entry = "find_duplicates" /\ HandlesOpen) =>
        /\ \A p \in DOMAIN txn : cached_checksum(p) = txn[p]
        /\ \A p \in DOMAIN files : cached_checksum(p) = files[p]

\* The row a path has on the write connection: committed or in its
\* transaction.
WrittenRow(p) == IF p \in DOMAIN txn THEN txn[p] ELSE Row(files, p)

\* C16: store_checksum never raises, and after it the path has the row with
\* the checksum that was passed, whether or not the path had a row before.
C16_PutIsUpsert ==
    pc = "cache" =>
        /\ raised = "none"
        /\ \A p \in DOMAIN stored : WrittenRow(p) = stored[p]

\* C17: a lookup step returns the checksum of the path's committed row, or
\* None when the path has none, raises nothing and leaves the table and the
\* open transaction as they were.
C17_GetNeverFails ==
    [][\A p \in Paths :
           (p \in DOMAIN lookups' /\ p \notin DOMAIN lookups) =>
               /\ lookups'[p] = (IF p \in DOMAIN files THEN files[p] ELSE None)
               /\ files' = files
               /\ txn' = txn
               /\ raised' = "none"
               /\ pc' \in {"lookup", "hash"}]_vars

\* C17 witness: in one bucket a lookup has hit and another has missed.
C17_Witness ==
    /\ pc \in {"lookup", "hash"}
    /\ \E p, q \in DOMAIN lookups :
           /\ tree[p].st_size = tree[q].st_size
           /\ lookups[p] # None
           /\ lookups[q] = None

\* C18: the scan, unless the process is killed, returns normally whatever
\* files fail to stat: the set of inaccessible files holds exactly those, and
\* every other regular file is in a bucket.
C18_StatFailureNotFatal ==
    [][(pc = "scan" /\ raised' # "kill") =>
           /\ pc' = "stage2"
           /\ raised' = "none"
           /\ bad_files' = {p \in _find_files_in_path : ~tree[p].stat_ok}
           /\ \A p \in _find_files_in_path \ bad_files' :
                  \E s \in DOMAIN files_by_size' : p \in files_by_size'[s]]_vars

\* C18 witness: the scan returned inaccessible files and a non-empty size map.
C18_Witness ==
    /\ ScanReturned
    /\ bad_files # {}
    /\ files_by_size # <<>>

\* C19: when checksum raises in find_duplicates the run is over with that
\* step: nothing is stored for the file, and afterwards no file is hashed
\* and nothing is reported in that run.
C19_ReadFailurePropagates ==
    [][(entry' = "find_duplicates" /\ raised' = "checksum") =>
           /\ pc' = "failed"
           /\ stored' = stored
           /\ echoed' = echoed
           /\ raised = "checksum" => (hashed' = hashed /\ checksum_calls' = checksum_calls)]_vars

\* C19 witness: checksum raised in find_duplicates after another file of the
\* bucket was hashed and while a third was waiting.
C19_Witness ==
    /\ entry = "find_duplicates"
    /\ raised = "checksum"
    /\ pc = "failed"
    /\ unresolved # {}
    /\ Cardinality(hashed) >= 2

\* C20: with a duplicate-count target, after every processed bucket the
\* progress bar is at the found-duplicate total.
C20_ProgressEqualsFound ==
    (Truthy(min_duplicates) /\ pc = "select") => progress = found_dups

\* The six suffix letters of the size grammar.
SuffixLetters == {"k", "K", "m", "M", "g", "G"}

\* The part of a value before its one optional trailing suffix letter.
Body(v) ==
    IF v # <<>> /\ v[Len(v)] \in SuffixLetters THEN SubSeq(v, 1, Len(v) - 1) ELSE v

\* A value of the form <number>[<whitespace>][suffix].
WellFormed(v) == v # <<>> /\ IsFloat(Body(v)) /\ lstrip(Body(v)) = Body(v)

\* The power of 1024 a suffix letter stands for, whatever its case.
UnitPower(v) ==
    CASE v[Len(v)] \in {"k", "K"} -> 1
      [] v[Len(v)] \in {"m", "M"} -> 2
      [] v[Len(v)] \in {"g", "G"} -> 3
      [] OTHER -> 0

RECURSIVE TimesKiloPower(_, _)
TimesKiloPower(x, e) == IF e = 0 THEN x ELSE TimesKiloPower(Times(x, Kilo), e - 1)

\* The number of a well-formed value times its unit, truncated.
Truncated(v) == int(TimesKiloPower(float(Body(v)), UnitPower(v)))

\* C21: number.parse_size maps None to None, and for every value of the form
\* <number>[<whitespace>][suffix] it returns the number times 1024^1/2/3 for
\* k/m/g of either case (1 without suffix) truncated to an integer; when that
\* integer is not positive there is nothing to return and the value is
\* refused as not strictly positive.
C21_ParseSizeValue ==
    parsed.by = "number.parse_size" =>
        /\ value = {} => parsed = ReturnedNone(parsed.by)
        /\ \A v \in value :
               WellFormed(v) =>
                   IF Truncated(v) > 0
                   THEN parsed = Returned(parsed.by, Truncated(v))
                   ELSE parsed = BadParameter(parsed.by, StrictlyPositive)

\* C21 witness: number.parse_size returned 2560 for "2.5K", 7884 for "7.7k"
\* (7884.8 truncated) or 2048 for "2 K".
C21_Witness ==
    /\ parsed.by = "number.parse_size"
    /\ parsed.kind = "return"
    /\ \/ value = {<<"2", ".", "5", "K">>} /\ parsed.n = 2560
       \/ value = {<<"7", ".", "7", "k">>} /\ parsed.n = 7884
       \/ value = {<<"2", " ", "K">>} /\ parsed.n = 2048

\* C22: the callback of --max-size and size.parse_size end as
\* number.parse_size ends on the same value: the same integer returned, the
\* same refusal, None for None.
C22_ParsersAgree ==
    parsed.by \in {"pydupfinder._parse_size", "size.parse_size"} =>
        parsed = number_parse_size(parsed.by, value)

\* C23: number.parse_size never returns a value that is not positive; it
\* refuses with "Cannot parse size" the empty string and every value whose
\* part before one optional trailing suffix letter is not a number, and with
\* "must be strictly positive" every value that parses to 0 or less.
C23_RejectsInvalid ==
    parsed.by = "number.parse_size" =>
        /\ parsed.kind = "return" => parsed.n > 0
        /\ \A v \in value :
               /\ ~IsFloat(Body(v)) => parsed = BadParameter(parsed.by, CannotParse)
               /\ WellFormed(v) /\ Truncated(v) <= 0
                      => parsed = BadParameter(parsed.by, StrictlyPositive)

\* The part of a percentage before the optional whitespace and the '%'.
PercentBody(v) == rstrip(SubSeq(v, 1, Len(v) - 1))

\* C24: parse_memory_limit returns None for None; for a value that ends in
\* '%' after a number p and optional whitespace it returns
\* int(total * p / 100) when 0 <= p <= 100, and raises click.BadParameter
\* when p is not a number or is outside 0..100.
C24_MemoryPercentage ==
    parsed.by = "memory.parse_memory_limit" =>
        /\ value = {} => parsed = ReturnedNone(parsed.by)
        /\ \A v \in value :
               endswith(v, "%") =>
                   IF IsFloat(PercentBody(v)) /\ ~OutOfPercentRange(float(PercentBody(v)))
                   THEN parsed = Returned(parsed.by, PercentOf(float(PercentBody(v))))
                   ELSE parsed.kind = "BadParameter"

\* The paths of a processed bucket that share their checksum with another path
\* of the bucket.
DuplicatesOf(s) ==
    {p \in files_by_size[s] \cap DOMAIN resolved :
        \E q \in files_by_size[s] \cap DOMAIN resolved : q # p /\ resolved[q] = resolved[p]}

\* The group of p is the only duplicate group of its bucket (of several groups
\* find_duplicates keeps one in its map, C1).
OnlyGroup(s, p) == \A q \in DuplicatesOf(s) : resolved[q] = resolved[p]

\* Paths p and q of bucket s were reported together as duplicates.
ReportedTogether(s, p, q) ==
    IF entry = "cli"
    THEN \E i \in DOMAIN echoed : echoed[i].size = s /\ {p, q} \subseteq echoed[i].files
    ELSE /\ s \in Keys(found_duplicate_files)
         /\ OnlyGroup(s, p) => {p, q} \subseteq Get(found_duplicate_files, s)

BucketOf(p) == CHOOSE s \in DOMAIN scanned : p \in scanned[s]

RECURSIVE BytesOf(_)
\* The bucket sizes of a set of paths, each counted as often as the path was
\* hashed and its checksum handed on.
BytesOf(S) ==
    IF S = {} THEN 0
    ELSE LET p == CHOOSE p \in S : TRUE
         IN  store_calls[p] * BucketOf(p) + BytesOf(S \ {p})

\* The files whose content the run has read to the end.
FreshlyHashed == {p \in Paths : store_calls[p] > 0}

\* C26: at every point of a run total_size_checksummed is the sum of the
\* bucket sizes of the files hashed so far in the run; within a run it never
\* decreases, and a cache lookup leaves it as it is.
C26_BytesAccounting ==
    /\ [](total_size_checksummed = BytesOf(FreshlyHashed))
    /\ [][/\ (run' = run /\ raised' # "kill")
              => total_size_checksummed' >= total_size_checksummed
          /\ (pc = "lookup" /\ run' = run /\ raised' # "kill")
              => total_size_checksummed' = total_size_checksummed]_vars

\* C26 witness: files of two different sizes were hashed in one run, which
\* also found a checksum in the cache.
C26_Witness ==
    /\ \E p, q \in FreshlyHashed : BucketOf(p) # BucketOf(q)
    /\ \E p \in DOMAIN lookups : lookups[p] # None
    /\ total_size_checksummed >= 3

\* C27: with a duplicate-count target every bucket that was started is
\* processed completely: each of its files has a checksum and each of its
\* duplicates is counted.  The total was below the target when the last
\* processed bucket was selected, and exceeds it by duplicates of that
\* bucket alone.
C27_TargetAtSelection ==
    \A m \in min_duplicates :
        (pc \in {"select", "report", "done"} /\ Truthy(min_duplicates)) =>
            /\ \A i \in DOMAIN grouped : files_by_size[grouped[i]] \subseteq DOMAIN resolved
            /\ found_dups = Cardinality(UNION {DuplicatesOf(grouped[i]) : i \in DOMAIN grouped})
            /\ grouped # <<>> =>
                   /\ found_before < m
                   /\ found_dups
                          = found_before + Cardinality(DuplicatesOf(grouped[Len(grouped)]))

\* C27 witness: a run with a target ended after a bucket that was selected
\* below the target and, processed completely, took the total beyond it.
C27_Witness ==
    /\ pc = "done"
    /\ grouped # <<>>
    /\ \E m \in min_duplicates : found_dups > m /\ found_before < m

\* C28: all paths reported under a size were scanned with that stat size and
\* were given one and the same checksum by the resolver.
C28_ReportSound ==
    /\ \A i \in DOMAIN found_duplicate_files :
           \A p, q \in found_duplicate_files[i].val :
               /\ p \in scanned[found_duplicate_files[i].key]
               /\ tree[p].st_size = found_duplicate_files[i].key
               /\ p \in DOMAIN resolved /\ q \in DOMAIN resolved
               /\ resolved[p] = resolved[q]
    /\ \A i \in DOMAIN echoed :
           \A p, q \in echoed[i].files :
               /\ p \in scanned[echoed[i].size]
               /\ tree[p].st_size = echoed[i].size
               /\ p \in DOMAIN resolved /\ q \in DOMAIN resolved
               /\ resolved[p] = resolved[q]

\* C28 witness: find_duplicates ended with an entry that holds a path whose
\* checksum came from the cache and one hashed in this run, while a third
\* path of that size has another checksum.
C28_Witness ==
    /\ pc = "done"
    /\ entry = "find_duplicates"
    /\ \E i \in DOMAIN found_duplicate_files :
           /\ \E p, q \in found_duplicate_files[i].val :
                  Row(lookups, p) # None /\ store_calls[q] > 0
           /\ \E r \in scanned[found_duplicate_files[i].key] \cap DOMAIN resolved :
                  r \notin found_duplicate_files[i].val

====
